---- MODULE Spec2Model ----
(***************************************************************************)
(* Pricing and quoting engine of the pharma backend.                       *)
(*                                                                         *)
(*   services/pricing.py  PricingEngineService.calculate_price             *)
(*   services/quote.py    QuoteService (create / get / update / delete)    *)
(*   services/export.py   ExportService.send_quote_email                   *)
(*                                                                         *)
(* SpecPricing runs one calculate_price call against each store of a       *)
(* family of brand, customer type and pricing rule tables, and hands the   *)
(* price it returned to check_nppa_compliance.  SpecNppa runs the two      *)
(* calls on their own.  Spec runs the quote operations, one request after  *)
(* the other, statement by statement; SpecLine does so for create_quote    *)
(* over the ways of pricing a line, SpecRead for get_quote and list_quotes *)
(* on quotes of earlier days, and SpecBrand runs create_quote while        *)
(* another session updates brands.                                         *)
(*                                                                         *)
(* Money is kept exact: a price p is held as the integer p * Scale, so     *)
(* that cost * (1 + m/100) * (1 - d/100) with integer cost, m and d is an  *)
(* integer.  A margin percent is held as a fraction [num, den].            *)
(* SQL NULL and Python None are the value NULL.                            *)
(***************************************************************************)
EXTENDS Integers, Sequences, FiniteSets, TLC

NULL == -1

Scale == 100 * 100

\* Largest quantity a price is asked for.
MaxQty == 4

\* CURRENT_DATE of the store, as a day number.
Today == 2

\* validity_days of QuoteCreate, its default.
ValidityDays == 7

VARIABLES
    brands,             \* table brands
    customer_types,     \* table customer_types
    pricing_rules,      \* table pricing_rules
    quotes,             \* table quotes (committed rows)
    quote_line_items,   \* table quote_line_items (committed rows)
    next_quote_id,      \* serial of quotes.id
    next_item_id,       \* serial of quote_line_items.id
    sess,               \* the request in flight: position, locals, result
    price_call,         \* arguments of the last calculate_price call
    price_result,       \* what the last calculate_price call returned
    twin_results,       \* the same call on brands differing only in NPPA fields
    nppa_call,          \* arguments of the last check_nppa_compliance call
    nppa_result,        \* what the last check_nppa_compliance call returned
    next_type_id        \* serial of customer_types.id

vars == <<brands, customer_types, pricing_rules, quotes, quote_line_items,
          next_quote_id, next_item_id, sess, price_call, price_result,
          twin_results, nppa_call, nppa_result, next_type_id>>

quoteVars == <<quotes, quote_line_items, next_quote_id, next_item_id, sess>>
priceVars == <<price_call, price_result, twin_results, nppa_call, nppa_result>>

----------------------------------------------------------------------------
(* Python truthiness of a nullable number: None and 0 are false.           *)
Truthy(x) == x # NULL /\ x # 0

(* x or 0 *)
OrZero(x) == IF Truthy(x) THEN x ELSE 0

Min(a, b) == IF a <= b THEN a ELSE b

----------------------------------------------------------------------------
(* calculate_price                                                         *)

\* The brand lookup without its owner condition.
ActiveBrandAnyOwner(user_id, brand_id) ==
    {b \in brands : b.id = brand_id /\ b.is_active}

\* The brand lookup without its is_active condition.
ActiveBrandOrDeleted(user_id, brand_id) ==
    {b \in brands : b.id = brand_id /\ b.user_id = user_id}

\* SELECT ... FROM brands WHERE id AND user_id AND is_active = true
ActiveBrand(user_id, brand_id) ==
    {b \in brands : b.id = brand_id /\ b.user_id = user_id /\ b.is_active}

\* The rule query with a window that excludes its two end dates.
MatchingRulesStrictWindow(user_id, brand_id, customer_type_id) ==
    {r \in pricing_rules :
        /\ r.user_id = user_id
        /\ r.brand_id = brand_id
        /\ r.customer_type_id # NULL
        /\ r.customer_type_id = customer_type_id
        /\ r.is_active
        /\ (r.valid_from = NULL \/ r.valid_from < Today)
        /\ (r.valid_until = NULL \/ r.valid_until > Today)}

\* The rows the pricing_rules query can return.  SQL equality with a NULL
\* customer_type_id is never true.
MatchingRules(user_id, brand_id, customer_type_id) ==
    {r \in pricing_rules :
        /\ r.user_id = user_id
        /\ r.brand_id = brand_id
        /\ r.customer_type_id # NULL
        /\ r.customer_type_id = customer_type_id
        /\ r.is_active
        /\ (r.valid_from = NULL \/ r.valid_from <= Today)
        /\ (r.valid_until = NULL \/ r.valid_until >= Today)}

\* rule = None
NoRule == [id |-> NULL]

\* The values `rule` can take: the query runs only for a truthy customer type
\* id, and LIMIT 1 without ORDER BY returns any one matching row.
RuleChoices(user_id, brand_id, customer_type_id) ==
    IF Truthy(customer_type_id)
       /\ MatchingRules(user_id, brand_id, customer_type_id) # {}
    THEN MatchingRules(user_id, brand_id, customer_type_id)
    ELSE {NoRule}

RuleBasePriceMarginFirst(rule, cost_price) ==
    IF Truthy(rule.margin_percentage)
    THEN cost_price * (100 + rule.margin_percentage) * 100
    ELSE IF Truthy(rule.sell_price)
         THEN rule.sell_price * Scale
         ELSE cost_price * 100 * 100

\* if rule[1]: sell_price = rule[1]  else: cost_price * (1 + margin / 100)
RuleBasePrice(rule, cost_price) ==
    IF Truthy(rule.sell_price)
    THEN rule.sell_price * Scale
    ELSE cost_price * (100 + OrZero(rule.margin_percentage)) * 100

VolumeDiscountStrictMax(rule, quantity) ==
    IF Truthy(rule.min_quantity) /\ Truthy(rule.max_quantity)
    THEN IF rule.min_quantity <= quantity /\ quantity < rule.max_quantity
         THEN OrZero(rule.volume_discount) ELSE 0
    ELSE IF Truthy(rule.min_quantity)
         THEN IF quantity >= rule.min_quantity
              THEN OrZero(rule.volume_discount) ELSE 0
         ELSE 0

\* Apply volume discount if quantity matches
VolumeDiscount(rule, quantity) ==
    IF Truthy(rule.min_quantity) /\ Truthy(rule.max_quantity)
    THEN IF rule.min_quantity <= quantity /\ quantity <= rule.max_quantity
         THEN OrZero(rule.volume_discount) ELSE 0
    ELSE IF Truthy(rule.min_quantity)
         THEN IF quantity >= rule.min_quantity
              THEN OrZero(rule.volume_discount) ELSE 0
         ELSE 0

\* SELECT default_margin FROM customer_types WHERE id AND user_id
TypeRows(user_id, customer_type_id) ==
    {t \in customer_types : t.id = customer_type_id /\ t.user_id = user_id}

\* margin_percentage after the customer type lookup
TypeMargin(user_id, customer_type_id) ==
    IF Truthy(customer_type_id) /\ TypeRows(user_id, customer_type_id) # {}
    THEN OrZero((CHOOSE t \in TypeRows(user_id, customer_type_id) : TRUE).default_margin)
    ELSE 0

\* The else branch: customer type default margin, then the brand's default
\* margin, which replaces it whenever it is set and non-zero.
FallbackMargin(user_id, brand, customer_type_id) ==
    IF Truthy(brand.default_margin)
    THEN brand.default_margin
    ELSE TypeMargin(user_id, customer_type_id)

\* sell_price * (1 - volume_discount / 100), when volume_discount > 0
ApplyDiscount(price, discount) ==
    IF discount > 0 THEN (price * (100 - discount)) \div 100 ELSE price

CapAtMrpMissing(price, brand) == price

CapAtMrpOrNppa(price, brand) ==
    IF brand.is_nppa_controlled /\ Truthy(brand.nppa_margin_limit)
    THEN Min(Min(price, brand.mrp * Scale),
             brand.cost_price * (100 + brand.nppa_margin_limit) * 100)
    ELSE Min(price, brand.mrp * Scale)

\* sell_price = min(sell_price, mrp)
CapAtMrp(price, brand) == Min(price, brand.mrp * Scale)

\* ((sell_price - cost_price) / cost_price * 100) if cost_price > 0 else 0
MarginPercent(price, cost_price) ==
    IF cost_price > 0
    THEN [num |-> (price - cost_price * Scale) * 100, den |-> cost_price * Scale]
    ELSE [num |-> 0, den |-> 1]

\* margin > limit, for a margin held as a fraction
MarginExceeds(margin, limit) == margin.num > limit * margin.den

\* The pre-cap sell price of the call.
BaseSellPrice(user_id, brand, customer_type_id, rule) ==
    IF rule # NoRule
    THEN RuleBasePrice(rule, brand.cost_price)
    ELSE brand.cost_price
            * (100 + FallbackMargin(user_id, brand, customer_type_id)) * 100

\* The dictionary calculate_price returns for a found brand and the rule the
\* query returned.
PriceOf(user_id, brand, customer_type_id, quantity, rule) ==
    LET volume_discount ==
            IF rule # NoRule THEN VolumeDiscount(rule, quantity) ELSE 0
        sell_price ==
            CapAtMrp(ApplyDiscount(
                         BaseSellPrice(user_id, brand, customer_type_id, rule),
                         volume_discount),
                     brand)
        final_margin == MarginPercent(sell_price, brand.cost_price)
        exceeds ==
            /\ brand.is_nppa_controlled
            /\ Truthy(brand.nppa_margin_limit)
            /\ MarginExceeds(final_margin, brand.nppa_margin_limit)
    IN  [kind |-> "ok",
         brand_id |-> brand.id,
         cost_price |-> brand.cost_price * Scale,
         mrp |-> brand.mrp * Scale,
         unit_price |-> sell_price,
         quantity |-> quantity,
         margin_percentage |-> final_margin,
         margin_per_unit |-> sell_price - brand.cost_price * Scale,
         total_margin |-> (sell_price - brand.cost_price * Scale) * quantity,
         total_amount |-> sell_price * quantity,
         volume_discount |-> volume_discount,
         nppa_controlled |-> brand.is_nppa_controlled,
         nppa_compliant |-> ~exceeds,
         nppa_message |-> IF exceeds THEN "exceeds NPPA limit" ELSE "Compliant"]

Sessions == {1, 2}

\* A session serving no request.
NoSession == [pc |-> "idle"]

\* The call has not returned.
Pending == [kind |-> "pending"]

\* raise ValueError("Brand not found")
BrandNotFound == [kind |-> "NotFound"]

\* The (is_nppa_controlled, nppa_margin_limit) pairs a brand row can hold.
NppaSettings == {<<FALSE, NULL>>, <<FALSE, 15>>, <<TRUE, NULL>>, <<TRUE, 0>>,
                 <<TRUE, 15>>}

\* The brand with other NPPA fields.
WithNppa(brand, setting) ==
    [brand EXCEPT !.is_nppa_controlled = setting[1],
                  !.nppa_margin_limit = setting[2]]

\* One calculate_price call, with the arguments of price_call; the same call is
\* also made against each brand row that differs from the stored one only in
\* its NPPA fields.
CalculatePrice ==
    /\ price_result = Pending
    /\ LET user_id == price_call.user_id
           brand_id == price_call.brand_id
           customer_type_id == price_call.customer_type_id
           quantity == price_call.quantity
       IN  IF ActiveBrand(user_id, brand_id) = {}
           THEN /\ price_result' = BrandNotFound
                /\ twin_results' = {}
                /\ price_call' = price_call
           ELSE LET brand == CHOOSE b \in ActiveBrand(user_id, brand_id) : TRUE
                IN  \E rule \in RuleChoices(user_id, brand_id, customer_type_id) :
                       /\ price_result' =
                            PriceOf(user_id, brand, customer_type_id, quantity, rule)
                       /\ twin_results' =
                            {PriceOf(user_id, WithNppa(brand, n), customer_type_id,
                                     quantity, rule) : n \in NppaSettings}
                       /\ price_call' = [price_call EXCEPT !.rule = rule]
    /\ UNCHANGED <<brands, customer_types, pricing_rules, nppa_call, nppa_result>>
    /\ UNCHANGED <<quoteVars, next_type_id>>

\* is_compliant with the comparison turned into margin >= limit.
NppaCompliantBelowLimit(brand, margin) ==
    ~ /\ brand.is_nppa_controlled
      /\ Truthy(brand.nppa_margin_limit)
      /\ margin.num >= brand.nppa_margin_limit * margin.den

\* is_compliant of check_nppa_compliance: false only for a controlled brand
\* whose limit is set (truthy) and exceeded.
NppaCompliant(brand, margin) ==
    ~ /\ brand.is_nppa_controlled
      /\ Truthy(brand.nppa_margin_limit)
      /\ MarginExceeds(margin, brand.nppa_margin_limit)

\* The dictionary check_nppa_compliance returns, or its ValueError.
CheckNppaOf(user_id, brand_id, proposed_price) ==
    LET found == ActiveBrand(user_id, brand_id)
    IN  IF found = {}
        THEN BrandNotFound
        ELSE LET brand == CHOOSE b \in found : TRUE
                 margin_percentage ==
                     MarginPercent(proposed_price, brand.cost_price)
                 is_compliant == NppaCompliant(brand, margin_percentage)
                 answer ==
                     [kind |-> "ok",
                      brand_id |-> brand_id,
                      proposed_price |-> proposed_price,
                      cost_price |-> brand.cost_price * Scale,
                      margin_percentage |-> margin_percentage,
                      is_nppa_controlled |-> brand.is_nppa_controlled,
                      is_compliant |-> is_compliant,
                      message |-> IF is_compliant THEN "Price is NPPA compliant"
                                  ELSE "exceeds NPPA limit"]
             IN  IF /\ brand.is_nppa_controlled
                    /\ ~Truthy(brand.nppa_margin_limit)
                 THEN [answer EXCEPT
                         !.message = "NPPA controlled but no margin limit set"]
                 ELSE answer @@
                        [nppa_limit |-> IF Truthy(brand.nppa_margin_limit)
                                        THEN brand.nppa_margin_limit ELSE NULL]

\* A check_nppa_compliance call that also stores its verdict on the brand.
CheckNppaComplianceCaching(call) ==
    /\ nppa_result = Pending
    /\ nppa_call' = call
    /\ nppa_result' =
          CheckNppaOf(call.user_id, call.brand_id, call.proposed_price)
    /\ brands' = {IF b.id = call.brand_id
                  THEN [b EXCEPT !.is_nppa_controlled = TRUE] ELSE b :
                  b \in brands}
    /\ UNCHANGED <<customer_types, pricing_rules, price_call, price_result,
                   twin_results>>
    /\ UNCHANGED <<quoteVars, next_type_id>>

\* One check_nppa_compliance call.
CheckNppaCompliance(call) ==
    /\ nppa_result = Pending
    /\ nppa_call' = call
    /\ nppa_result' =
          CheckNppaOf(call.user_id, call.brand_id, call.proposed_price)
    /\ UNCHANGED <<brands, customer_types, pricing_rules, price_call,
                   price_result, twin_results>>
    /\ UNCHANGED <<quoteVars, next_type_id>>

\* The caller hands the unit price calculate_price returned to
\* check_nppa_compliance, for the same brand.
CheckReturnedPrice ==
    /\ price_result.kind = "ok"
    /\ CheckNppaCompliance([user_id |-> price_call.user_id,
                            brand_id |-> price_call.brand_id,
                            proposed_price |-> price_result.unit_price])

\* No check_nppa_compliance call was made.
NoNppaCall == [user_id |-> NULL, brand_id |-> NULL, proposed_price |-> NULL]

----------------------------------------------------------------------------
(* The stores the resolver is checked against.                             *)

UserIds == {1, 2}

\* (cost_price, mrp) of the brand: mrp >= cost_price at creation, not
\* re-checked by update_brand.
BrandPrices == {<<20, 25>>, <<20, 35>>, <<30, 25>>}

PricingBrands ==
    {[id |-> 1, user_id |-> 1, cost_price |-> p[1], mrp |-> p[2],
      default_margin |-> dm, is_nppa_controlled |-> n[1],
      nppa_margin_limit |-> n[2], is_active |-> TRUE] :
        p \in BrandPrices, dm \in {NULL, 10},
        n \in NppaSettings \ {<<FALSE, 15>>}}

PricingTypes ==
    {[id |-> 1, user_id |-> 1, default_margin |-> 15],
     [id |-> 3, user_id |-> 1, default_margin |-> NULL],
     [id |-> 4, user_id |-> 2, default_margin |-> 30]}

\* Rules of customer type 1 in force today, over every way of pricing.
TierRules ==
    [id : {1}, user_id : {1}, brand_id : {1}, customer_type_id : {1},
     margin_percentage : {NULL, 20}, sell_price : {NULL, 28},
     volume_discount : {NULL, 5}, min_quantity : {NULL, 2},
     max_quantity : {NULL, 0, 3}, is_active : {TRUE},
     valid_from : {NULL}, valid_until : {NULL}]

\* One tier over every way of matching.
WindowRules ==
    [id : {1}, user_id : {1, 2}, brand_id : {1}, customer_type_id : {1, NULL},
     margin_percentage : {20}, sell_price : {NULL},
     volume_discount : {5}, min_quantity : {2},
     max_quantity : {3}, is_active : BOOLEAN,
     valid_from : {NULL, Today, Today + 1},
     valid_until : {NULL, Today - 1, Today}]

\* A second rule of the same customer type and brand.
SecondRules ==
    [id : {2}, user_id : {1}, brand_id : {1}, customer_type_id : {1},
     margin_percentage : {NULL, 10}, sell_price : {NULL, 22},
     volume_discount : {0}, min_quantity : {1},
     max_quantity : {NULL}, is_active : {TRUE},
     valid_from : {NULL}, valid_until : {NULL}]

RuleTables ==
    {{}} \cup {{r} : r \in TierRules \cup WindowRules}
         \cup {{r1, r2} : r1 \in TierRules, r2 \in SecondRules}

\* The calls made: PriceCalculationRequest, for either user.
PriceCalls ==
    [user_id : UserIds, brand_id : {1, 2}, customer_type_id : {NULL, 1, 3, 4},
     quantity : 1..MaxQty, rule : {NoRule}]

InitPricing ==
    /\ brands \in {{b} : b \in PricingBrands}
    /\ customer_types = PricingTypes
    /\ pricing_rules \in RuleTables
    /\ quotes = {}
    /\ quote_line_items = {}
    /\ next_quote_id = 1
    /\ next_item_id = 1
    /\ next_type_id = 5
    /\ sess = [s \in Sessions |-> NoSession]
    /\ price_call \in PriceCalls
    /\ price_result = Pending
    /\ twin_results = {}
    /\ nppa_call = NoNppaCall
    /\ nppa_result = Pending

NextPricing ==
    \/ CalculatePrice
    \/ CheckReturnedPrice

SpecPricing == InitPricing /\ [][NextPricing]_vars

----------------------------------------------------------------------------
(* The resolver and the compliance checker called on their own, against a  *)
(* store that also holds a quote.                                          *)

\* proposed_price of NPPACheckRequest (gt 0), in currency units.
ProposedPrices == {15, 20, 22, 23, 25, 40}

\* NPPACheckRequest, for either user.
NppaCalls ==
    [user_id : UserIds, brand_id : {1, 2},
     proposed_price : {p * Scale : p \in ProposedPrices}]

\* A quote of user 1 as create_quote leaves it: one line of brand 1 at MRP 25.
StoredQuotes ==
    {[id |-> 1, user_id |-> 1, quote_number |-> <<1, 1>>, status |-> "draft",
      quote_expires_at |-> Today + ValidityDays,
      total_amount |-> 25 * Scale, total_margin |-> 5 * Scale]}

StoredLineItems ==
    {[id |-> 1, quote_id |-> 1, brand_id |-> 1, quantity |-> 1,
      unit_price |-> 25 * Scale,
      margin_percentage |-> [num |-> 5 * Scale * 100, den |-> 20 * Scale],
      discount |-> 0, line_total |-> 25 * Scale, margin_earned |-> 5 * Scale]}

InitNppa ==
    /\ brands \in {{b} : b \in PricingBrands}
    /\ customer_types = PricingTypes
    /\ pricing_rules \in {{}} \cup {{r} : r \in SecondRules}
    /\ quotes = StoredQuotes
    /\ quote_line_items = StoredLineItems
    /\ next_quote_id = 2
    /\ next_item_id = 2
    /\ next_type_id = 5
    /\ sess = [s \in Sessions |-> NoSession]
    /\ price_call \in {c \in PriceCalls : c.quantity = 1}
    /\ price_result = Pending
    /\ twin_results = {}
    /\ nppa_call = NoNppaCall
    /\ nppa_result = Pending

NextNppa ==
    \/ CalculatePrice
    \/ \E call \in NppaCalls : CheckNppaCompliance(call)

SpecNppa == InitNppa /\ [][NextNppa]_vars

----------------------------------------------------------------------------
(* Quotes.  A request runs as session s; sess[s].pc is its position.  Each *)
(* database statement that another request could observe is a step of its  *)
(* own; rows written by a transaction reach the tables at its commit.      *)

QuoteStatus == {"draft", "sent", "viewed", "accepted", "rejected", "expired"}

\* Quotes inserted in one run.
MaxQuotes == 2

\* Line item requests of one create_quote call.
MaxItems == 2

\* Distinct random suffixes _generate_quote_number can draw.
NumSuffixes == 2

\* QT-{user_id}-{YYYYMMDD}-{6 random characters}, within one day
GenerateQuoteNumbers(user_id) == {<<user_id, x>> : x \in 1..NumSuffixes}

Idle(s) == sess[s].pc = "idle"

\* Another session's transaction has deleted the quote row and not yet
\* committed: a statement that writes the row waits for that commit.
RowLocked(s, quote_id) ==
    \E t \in Sessions \ {s} :
        sess[t].pc = "delete_commit" /\ quote_id \in sess[t].del_quotes

\* raise ValueError(f"Brand {item['brand_id']} not found")
BrandNotFoundError(brand_id) ==
    [kind |-> "NotFound", what |-> "Brand", brand_id |-> brand_id]

\* raise ValueError("Quote not found")
QuoteNotFoundError == [kind |-> "NotFound", what |-> "Quote"]

\* raise ValueError("Can only delete draft quotes")
OnlyDraftError == [kind |-> "InvalidState"]

\* raise Exception("Failed to ...")
InternalError == [kind |-> "InternalError"]

\* unit_price of a line: the caller's, or from the caller's margin capped at
\* MRP, or MRP; then the caller's discount.
ItemUnitPrice(brand, item) ==
    LET base == IF Truthy(item.unit_price)
                THEN item.unit_price * Scale
                ELSE IF Truthy(item.margin_percentage)
                     THEN Min(brand.cost_price
                                 * (100 + item.margin_percentage) * 100,
                              brand.mrp * Scale)
                     ELSE brand.mrp * Scale
    IN  IF item.discount > 0
        THEN (base * (100 - item.discount)) \div 100
        ELSE base

\* The entry appended to processed_items.
ProcessedItem(brand, item) ==
    LET unit_price == ItemUnitPrice(brand, item)
        margin_per_unit == unit_price - brand.cost_price * Scale
    IN  [brand_id |-> item.brand_id,
         quantity |-> item.quantity,
         unit_price |-> unit_price,
         margin_percentage |-> MarginPercent(unit_price, brand.cost_price),
         discount |-> item.discount,
         line_total |-> unit_price * item.quantity,
         margin_earned |-> margin_per_unit * item.quantity]

\* Rows in ascending id: ORDER BY id ASC
RECURSIVE ById(_)
ById(rows) ==
    IF rows = {} THEN <<>>
    ELSE LET first == CHOOSE r \in rows : \A o \in rows : r.id <= o.id
         IN  <<first>> \o ById(rows \ {first})

\* get_quote against the tables qs and items
GetQuote(qs, items, user_id, quote_id) ==
    LET found == {q \in qs : q.id = quote_id /\ q.user_id = user_id}
    IN  IF found = {}
        THEN QuoteNotFoundError
        ELSE LET quote == CHOOSE q \in found : TRUE
                 line_items == ById({it \in items : it.quote_id = quote_id})
             IN  [kind |-> "ok",
                  id |-> quote.id,
                  user_id |-> user_id,
                  quote_number |-> quote.quote_number,
                  status |-> quote.status,
                  valid_until |-> quote.quote_expires_at,
                  total_amount |-> quote.total_amount,
                  total_margin |-> quote.total_margin,
                  total_items |-> Len(line_items),
                  line_items |-> line_items]

\* Rows in descending id: ORDER BY quote_date DESC, the rows having been
\* inserted in the order of their ids.
RECURSIVE NewestFirst(_)
NewestFirst(rows) ==
    IF rows = {} THEN <<>>
    ELSE LET first == CHOOSE r \in rows : \A o \in rows : r.id >= o.id
         IN  <<first>> \o NewestFirst(rows \ {first})

\* list_quotes against the table qs, without a name filter and with a page
\* that holds every row.
ListOf(qs, user_id, status) ==
    LET rows == {q \in qs : /\ q.user_id = user_id
                            /\ status # "" => q.status = status}
        sorted == NewestFirst(rows)
    IN  [kind |-> "ok",
         quotes |-> [k \in 1..Len(sorted) |->
                       [id |-> sorted[k].id,
                        quote_number |-> sorted[k].quote_number,
                        status |-> sorted[k].status,
                        total_amount |-> sorted[k].total_amount,
                        total_margin |-> sorted[k].total_margin,
                        valid_until |-> sorted[k].quote_expires_at]],
         total |-> Cardinality(rows)]

\* One get_quote call.
GetQuoteCall(s, user_id, quote_id) ==
    /\ Idle(s)
    /\ sess' = [sess EXCEPT ![s] =
                  [pc |-> "done", op |-> "get_quote",
                   user_id |-> user_id, quote_id |-> quote_id,
                   result |-> GetQuote(quotes, quote_line_items,
                                       user_id, quote_id)]]
    /\ UNCHANGED <<brands, customer_types, pricing_rules, quotes,
                   quote_line_items, next_quote_id, next_item_id>>
    /\ UNCHANGED <<priceVars, next_type_id>>

\* One list_quotes call; status "" is no status filter.
ListQuotes(s, user_id, status) ==
    /\ Idle(s)
    /\ sess' = [sess EXCEPT ![s] =
                  [pc |-> "done", op |-> "list_quotes",
                   user_id |-> user_id, status |-> status,
                   result |-> ListOf(quotes, user_id, status)]]
    /\ UNCHANGED <<brands, customer_types, pricing_rules, quotes,
                   quote_line_items, next_quote_id, next_item_id>>
    /\ UNCHANGED <<priceVars, next_type_id>>

\* create_quote is entered: the quote number is drawn, the totals are zeroed.
CreateQuoteBegin(s, user_id, line_items) ==
    /\ Idle(s)
    /\ next_quote_id <= MaxQuotes
    /\ \E quote_number \in GenerateQuoteNumbers(user_id) :
          sess' = [sess EXCEPT ![s] =
                     [pc |-> "lookup", op |-> "create_quote",
                      user_id |-> user_id, line_items |-> line_items,
                      quote_number |-> quote_number,
                      total_amount |-> 0, total_margin |-> 0,
                      processed_items |-> <<>>,
                      new_id |-> NULL, quote_id |-> NULL]]
    /\ UNCHANGED <<brands, customer_types, pricing_rules, quotes,
                   quote_line_items, next_quote_id, next_item_id>>
    /\ UNCHANGED <<priceVars, next_type_id>>

\* One round of the loop over line_items: the brand query, then the line.
CreateQuoteLookup(s) ==
    /\ sess[s].pc = "lookup"
    /\ LET me == sess[s]
           item == me.line_items[Len(me.processed_items) + 1]
           found == ActiveBrand(me.user_id, item.brand_id)
       IN  IF found = {}
           THEN sess' = [sess EXCEPT ![s] =
                           [me EXCEPT !.pc = "done"]
                             @@ [result |-> BrandNotFoundError(item.brand_id)]]
           ELSE LET line == ProcessedItem(CHOOSE b \in found : TRUE, item)
                    items == Append(me.processed_items, line)
                IN  sess' = [sess EXCEPT ![s] =
                        [me EXCEPT
                           !.processed_items = items,
                           !.total_amount = @ + line.line_total,
                           !.total_margin = @ + line.margin_earned,
                           !.pc = IF Len(items) = Len(me.line_items)
                                  THEN "insert_quote" ELSE "lookup"]]
    /\ UNCHANGED <<brands, customer_types, pricing_rules, quotes,
                   quote_line_items, next_quote_id, next_item_id>>
    /\ UNCHANGED <<priceVars, next_type_id>>

\* The quotes table has no uniqueness constraint on quote_number.
QuoteNumberIsUnique == FALSE

\* INSERT INTO quotes ...; db.commit()
CreateQuoteInsertQuote(s) ==
    /\ sess[s].pc = "insert_quote"
    /\ QuoteNumberIsUnique =>
          \A q \in quotes : q.quote_number # sess[s].quote_number
    /\ quotes' = quotes \cup
         {[id |-> next_quote_id,
           user_id |-> sess[s].user_id,
           quote_number |-> sess[s].quote_number,
           status |-> "draft",
           quote_expires_at |-> Today + ValidityDays,
           total_amount |-> sess[s].total_amount,
           total_margin |-> sess[s].total_margin]}
    /\ next_quote_id' = next_quote_id + 1
    /\ sess' = [sess EXCEPT ![s].pc = "select_id",
                            ![s].new_id = next_quote_id]
    /\ UNCHANGED <<brands, customer_types, pricing_rules, quote_line_items,
                   next_item_id>>
    /\ UNCHANGED <<priceVars, next_type_id>>

\* The INSERT INTO quotes raises: db.rollback(), "Failed to create quote".
CreateQuoteInsertQuoteFails(s) ==
    /\ sess[s].pc = "insert_quote"
    /\ sess' = [sess EXCEPT ![s] =
                  [sess[s] EXCEPT !.pc = "done"] @@ [result |-> InternalError]]
    /\ UNCHANGED <<brands, customer_types, pricing_rules, quotes,
                   quote_line_items, next_quote_id, next_item_id>>
    /\ UNCHANGED <<priceVars, next_type_id>>

\* SELECT id FROM quotes WHERE quote_number = :quote_number; scalar() takes
\* the first row of however many carry the number, and is None without a row.
CreateQuoteSelectId(s) ==
    /\ sess[s].pc = "select_id"
    /\ LET found == {r \in quotes : r.quote_number = sess[s].quote_number}
       IN  \E quote_id \in IF found = {} THEN {NULL}
                            ELSE {r.id : r \in found} :
              sess' = [sess EXCEPT ![s].pc = "insert_items",
                                   ![s].quote_id = quote_id]
    /\ UNCHANGED <<brands, customer_types, pricing_rules, quotes,
                   quote_line_items, next_quote_id, next_item_id>>
    /\ UNCHANGED <<priceVars, next_type_id>>

\* The rows the line item INSERTs write, with ids from the serial.
NewLineItems(s) ==
    {sess[s].processed_items[k]
        @@ [id |-> next_item_id + k - 1, quote_id |-> sess[s].quote_id] :
     k \in 1..Len(sess[s].processed_items)}

\* The quote_line_items table does not constrain quote_id (NOT NULL,
\* REFERENCES quotes).
LineItemQuoteIdIsConstrained == FALSE

\* INSERT INTO quote_line_items ... for every processed item; db.commit();
\* return get_quote(user_id, quote_id)
CreateQuoteInsertItems(s) ==
    /\ sess[s].pc = "insert_items"
    /\ LineItemQuoteIdIsConstrained =>
          \E q \in quotes : q.id = sess[s].quote_id
    /\ quote_line_items' = quote_line_items \cup NewLineItems(s)
    /\ next_item_id' = next_item_id + Len(sess[s].processed_items)
    /\ sess' = [sess EXCEPT ![s] =
                  [sess[s] EXCEPT !.pc = "done"]
                    @@ [result |-> GetQuote(quotes, quote_line_items',
                                            sess[s].user_id, sess[s].quote_id)]]
    /\ UNCHANGED <<brands, customer_types, pricing_rules, quotes,
                   next_quote_id>>
    /\ UNCHANGED <<priceVars, next_type_id>>

\* A line item INSERT raises: db.rollback() undoes the line items of this
\* transaction; the quote row was committed before.
CreateQuoteInsertItemsFails(s) ==
    /\ sess[s].pc = "insert_items"
    /\ sess' = [sess EXCEPT ![s] =
                  [sess[s] EXCEPT !.pc = "done"] @@ [result |-> InternalError]]
    /\ UNCHANGED <<brands, customer_types, pricing_rules, quotes,
                   quote_line_items, next_quote_id, next_item_id>>
    /\ UNCHANGED <<priceVars, next_type_id>>

\* The status the addressed quote has for the caller, "none" without one.
StatusOf(user_id, quote_id) ==
    LET found == {q \in quotes : q.id = quote_id /\ q.user_id = user_id}
    IN  IF found = {} THEN "none" ELSE (CHOOSE q \in found : TRUE).status

\* An update_quote_status that leaves accepted, rejected and expired quotes
\* as they are.
UpdateQuoteStatusNotFromTerminal(s, user_id, quote_id, status) ==
    /\ Idle(s)
    /\ ~RowLocked(s, quote_id)
    /\ quotes' = {IF /\ q.id = quote_id
                     /\ q.user_id = user_id
                     /\ q.status \notin {"accepted", "rejected", "expired"}
                  THEN [q EXCEPT !.status = status] ELSE q : q \in quotes}
    /\ LET got == GetQuote(quotes', quote_line_items, user_id, quote_id)
       IN  sess' = [sess EXCEPT ![s] =
                      [pc |-> "done", op |-> "update_quote_status",
                       user_id |-> user_id, quote_id |-> quote_id,
                       status |-> status,
                       status_before |-> StatusOf(user_id, quote_id),
                       result |-> IF got.kind = "ok" THEN got
                                  ELSE InternalError]]
    /\ UNCHANGED <<brands, customer_types, pricing_rules, quote_line_items,
                   next_quote_id, next_item_id>>
    /\ UNCHANGED <<priceVars, next_type_id>>

\* update_quote_status with UPDATE quotes SET status ... WHERE user_id = :user_id
UpdateQuoteStatusOfUser(s, user_id, quote_id, status) ==
    /\ Idle(s)
    /\ ~RowLocked(s, quote_id)
    /\ quotes' = {IF q.user_id = user_id
                  THEN [q EXCEPT !.status = status] ELSE q : q \in quotes}
    /\ LET got == GetQuote(quotes', quote_line_items, user_id, quote_id)
       IN  sess' = [sess EXCEPT ![s] =
                      [pc |-> "done", op |-> "update_quote_status",
                       user_id |-> user_id, quote_id |-> quote_id,
                       status |-> status,
                       status_before |-> StatusOf(user_id, quote_id),
                       result |-> IF got.kind = "ok" THEN got
                                  ELSE InternalError]]
    /\ UNCHANGED <<brands, customer_types, pricing_rules, quote_line_items,
                   next_quote_id, next_item_id>>
    /\ UNCHANGED <<priceVars, next_type_id>>

\* update_quote_status: UPDATE quotes SET status ...; db.commit();
\* get_quote, whose ValueError the handler turns into "Failed to update quote".
\* status_before records the status the row had, which the code never reads.
UpdateQuoteStatus(s, user_id, quote_id, status) ==
    /\ Idle(s)
    /\ ~RowLocked(s, quote_id)
    /\ quotes' = {IF q.id = quote_id /\ q.user_id = user_id
                  THEN [q EXCEPT !.status = status] ELSE q : q \in quotes}
    /\ LET got == GetQuote(quotes', quote_line_items, user_id, quote_id)
       IN  sess' = [sess EXCEPT ![s] =
                      [pc |-> "done", op |-> "update_quote_status",
                       user_id |-> user_id, quote_id |-> quote_id,
                       status |-> status,
                       status_before |-> StatusOf(user_id, quote_id),
                       result |-> IF got.kind = "ok" THEN got
                                  ELSE InternalError]]
    /\ UNCHANGED <<brands, customer_types, pricing_rules, quote_line_items,
                   next_quote_id, next_item_id>>
    /\ UNCHANGED <<priceVars, next_type_id>>

\* send_quote_email with UPDATE quotes SET status = 'sent' WHERE id = :quote_id
SendQuoteEmailAnyStatus(s, user_id, quote_id) ==
    /\ Idle(s)
    /\ ~RowLocked(s, quote_id)
    /\ IF {q \in quotes : q.id = quote_id /\ q.user_id = user_id} = {}
       THEN /\ quotes' = quotes
            /\ sess' = [sess EXCEPT ![s] =
                          [pc |-> "done", op |-> "send_quote_email",
                           user_id |-> user_id, quote_id |-> quote_id,
                           result |-> QuoteNotFoundError]]
       ELSE /\ quotes' = {IF q.id = quote_id
                          THEN [q EXCEPT !.status = "sent"] ELSE q :
                          q \in quotes}
            /\ sess' = [sess EXCEPT ![s] =
                          [pc |-> "done", op |-> "send_quote_email",
                           user_id |-> user_id, quote_id |-> quote_id,
                           result |-> [kind |-> "ok", quote_id |-> quote_id,
                                       status |-> "sent"]]]
    /\ UNCHANGED <<brands, customer_types, pricing_rules, quote_line_items,
                   next_quote_id, next_item_id>>
    /\ UNCHANGED <<priceVars, next_type_id>>

\* send_quote_email: the quote is looked up for the user, then
\* UPDATE quotes SET status = 'sent' WHERE id = :quote_id AND status = 'draft'
SendQuoteEmail(s, user_id, quote_id) ==
    /\ Idle(s)
    /\ ~RowLocked(s, quote_id)
    /\ IF {q \in quotes : q.id = quote_id /\ q.user_id = user_id} = {}
       THEN /\ quotes' = quotes
            /\ sess' = [sess EXCEPT ![s] =
                          [pc |-> "done", op |-> "send_quote_email",
                           user_id |-> user_id, quote_id |-> quote_id,
                           result |-> QuoteNotFoundError]]
       ELSE /\ quotes' = {IF q.id = quote_id /\ q.status = "draft"
                          THEN [q EXCEPT !.status = "sent"] ELSE q :
                          q \in quotes}
            /\ sess' = [sess EXCEPT ![s] =
                          [pc |-> "done", op |-> "send_quote_email",
                           user_id |-> user_id, quote_id |-> quote_id,
                           result |-> [kind |-> "ok", quote_id |-> quote_id,
                                       status |-> "sent"]]]
    /\ UNCHANGED <<brands, customer_types, pricing_rules, quote_line_items,
                   next_quote_id, next_item_id>>
    /\ UNCHANGED <<priceVars, next_type_id>>

\* delete_quote entered without the draft check.
DeleteQuoteCheckAnyStatus(s, user_id, quote_id) ==
    /\ Idle(s)
    /\ LET found == {q \in quotes : q.id = quote_id /\ q.user_id = user_id}
           call == [op |-> "delete_quote", user_id |-> user_id,
                    quote_id |-> quote_id, del_items |-> {}, del_quotes |-> {}]
       IN  IF found = {}
           THEN sess' = [sess EXCEPT ![s] =
                    call @@ [pc |-> "done", result |-> QuoteNotFoundError]]
           ELSE sess' = [sess EXCEPT ![s] = call @@ [pc |-> "delete_items"]]
    /\ UNCHANGED <<brands, customer_types, pricing_rules, quotes,
                   quote_line_items, next_quote_id, next_item_id>>
    /\ UNCHANGED <<priceVars, next_type_id>>

\* delete_quote is entered: SELECT status ... WHERE id AND user_id, and the
\* two checks on the row.
DeleteQuoteCheck(s, user_id, quote_id) ==
    /\ Idle(s)
    /\ LET found == {q \in quotes : q.id = quote_id /\ q.user_id = user_id}
           call == [op |-> "delete_quote", user_id |-> user_id,
                    quote_id |-> quote_id, del_items |-> {}, del_quotes |-> {}]
       IN  IF found = {}
           THEN sess' = [sess EXCEPT ![s] =
                    call @@ [pc |-> "done", result |-> QuoteNotFoundError]]
           ELSE IF (CHOOSE q \in found : TRUE).status # "draft"
                THEN sess' = [sess EXCEPT ![s] =
                        call @@ [pc |-> "done", result |-> OnlyDraftError]]
                ELSE sess' = [sess EXCEPT ![s] =
                        call @@ [pc |-> "delete_items"]]
    /\ UNCHANGED <<brands, customer_types, pricing_rules, quotes,
                   quote_line_items, next_quote_id, next_item_id>>
    /\ UNCHANGED <<priceVars, next_type_id>>

\* DELETE FROM quote_line_items WHERE quote_id = :quote_id, inside the
\* transaction: the rows it removes are gone from the table at the commit.
DeleteQuoteItems(s) ==
    /\ sess[s].pc = "delete_items"
    /\ sess' = [sess EXCEPT
                  ![s].pc = "delete_quote",
                  ![s].del_items = {it.id : it \in {r \in quote_line_items :
                                        r.quote_id = sess[s].quote_id}}]
    /\ UNCHANGED <<brands, customer_types, pricing_rules, quotes,
                   quote_line_items, next_quote_id, next_item_id>>
    /\ UNCHANGED <<priceVars, next_type_id>>

\* DELETE FROM quotes WHERE id = :quote_id AND user_id = :user_id, inside
\* the transaction.
DeleteQuoteRow(s) ==
    /\ sess[s].pc = "delete_quote"
    /\ sess' = [sess EXCEPT
                  ![s].pc = "delete_commit",
                  ![s].del_quotes = {q.id : q \in {r \in quotes :
                                        /\ r.id = sess[s].quote_id
                                        /\ r.user_id = sess[s].user_id}}]
    /\ UNCHANGED <<brands, customer_types, pricing_rules, quotes,
                   quote_line_items, next_quote_id, next_item_id>>
    /\ UNCHANGED <<priceVars, next_type_id>>

\* A commit that carries the line item DELETE only.
DeleteQuoteCommitItemsOnly(s) ==
    /\ sess[s].pc = "delete_commit"
    /\ quote_line_items' =
         {it \in quote_line_items : it.id \notin sess[s].del_items}
    /\ quotes' = quotes
    /\ sess' = [sess EXCEPT ![s] =
                  [sess[s] EXCEPT !.pc = "done"] @@ [result |-> [kind |-> "ok"]]]
    /\ UNCHANGED <<brands, customer_types, pricing_rules, next_quote_id,
                   next_item_id>>
    /\ UNCHANGED <<priceVars, next_type_id>>

\* db.commit(); return True
DeleteQuoteCommit(s) ==
    /\ sess[s].pc = "delete_commit"
    /\ LineItemQuoteIdIsConstrained =>
          \A it \in quote_line_items :
              it.id \in sess[s].del_items \/ it.quote_id \notin sess[s].del_quotes
    /\ quote_line_items' =
         {it \in quote_line_items : it.id \notin sess[s].del_items}
    /\ quotes' = {q \in quotes : q.id \notin sess[s].del_quotes}
    /\ sess' = [sess EXCEPT ![s] =
                  [sess[s] EXCEPT !.pc = "done"] @@ [result |-> [kind |-> "ok"]]]
    /\ UNCHANGED <<brands, customer_types, pricing_rules, next_quote_id,
                   next_item_id>>
    /\ UNCHANGED <<priceVars, next_type_id>>

\* A statement of the delete transaction or its commit raises: db.rollback(),
\* "Failed to delete quote".
DeleteQuoteFails(s) ==
    /\ sess[s].pc \in {"delete_items", "delete_quote", "delete_commit"}
    /\ sess' = [sess EXCEPT ![s] =
                  [sess[s] EXCEPT !.pc = "done", !.del_items = {},
                                  !.del_quotes = {}]
                    @@ [result |-> InternalError]]
    /\ UNCHANGED <<brands, customer_types, pricing_rules, quotes,
                   quote_line_items, next_quote_id, next_item_id>>
    /\ UNCHANGED <<priceVars, next_type_id>>

\* update_brand: UPDATE brands SET the fields given WHERE id AND user_id;
\* db.commit(); get_brand, whose ValueError becomes "Failed to update brand".
\* It does not wait for requests of other sessions.
UpdateBrand(s, user_id, brand_id, update_data) ==
    /\ Idle(s)
    /\ brands' =
          {IF b.id = brand_id /\ b.user_id = user_id
           THEN [b EXCEPT
                   !.mrp = IF update_data.mrp # NULL
                           THEN update_data.mrp ELSE @,
                   !.cost_price = IF update_data.cost_price # NULL
                                  THEN update_data.cost_price ELSE @]
           ELSE b : b \in brands}
    /\ LET found == {b \in brands' : b.id = brand_id /\ b.user_id = user_id}
       IN  sess' = [sess EXCEPT ![s] =
                      [pc |-> "done", op |-> "update_brand",
                       user_id |-> user_id, brand_id |-> brand_id,
                       update_data |-> update_data,
                       result |-> IF found = {} THEN InternalError
                                  ELSE [kind |-> "ok",
                                        brand |-> CHOOSE b \in found : TRUE]]]
    /\ UNCHANGED <<customer_types, pricing_rules, quotes, quote_line_items,
                   next_quote_id, next_item_id>>
    /\ UNCHANGED <<priceVars, next_type_id>>

\* delete_brand: UPDATE brands SET is_active = false WHERE id AND user_id;
\* db.commit(); return True, whether or not a row was updated.
DeleteBrand(s, user_id, brand_id) ==
    /\ Idle(s)
    /\ brands' = {IF b.id = brand_id /\ b.user_id = user_id
                  THEN [b EXCEPT !.is_active = FALSE] ELSE b : b \in brands}
    /\ sess' = [sess EXCEPT ![s] =
                  [pc |-> "done", op |-> "delete_brand",
                   user_id |-> user_id, brand_id |-> brand_id,
                   result |-> [kind |-> "ok"]]]
    /\ UNCHANGED <<customer_types, pricing_rules, quotes, quote_line_items,
                   next_quote_id, next_item_id>>
    /\ UNCHANGED <<priceVars, next_type_id>>

\* The UPDATE or the commit raises: db.rollback(), "Failed to delete brand".
DeleteBrandFails(s, user_id, brand_id) ==
    /\ Idle(s)
    /\ sess' = [sess EXCEPT ![s] =
                  [pc |-> "done", op |-> "delete_brand",
                   user_id |-> user_id, brand_id |-> brand_id,
                   result |-> InternalError]]
    /\ UNCHANGED <<brands, customer_types, pricing_rules, quotes,
                   quote_line_items, next_quote_id, next_item_id>>
    /\ UNCHANGED <<priceVars, next_type_id>>

\* The handler has returned; the session serves the next request.
Return(s) ==
    /\ sess[s].pc = "done"
    /\ sess' = [sess EXCEPT ![s] = NoSession]
    /\ UNCHANGED <<brands, customer_types, pricing_rules, quotes,
                   quote_line_items, next_quote_id, next_item_id>>
    /\ UNCHANGED <<priceVars, next_type_id>>

----------------------------------------------------------------------------
(* The store and the requests the quote operations are checked against.    *)

\* Brand 1 is user 1's, brand 2 user 2's, brand 3 is user 1's and was
\* soft-deleted; no brand has id 4.
QuoteBrands ==
    {[id |-> 1, user_id |-> 1, cost_price |-> 20, mrp |-> 25,
      default_margin |-> NULL, is_nppa_controlled |-> FALSE,
      nppa_margin_limit |-> NULL, is_active |-> TRUE],
     [id |-> 2, user_id |-> 2, cost_price |-> 30, mrp |-> 35,
      default_margin |-> NULL, is_nppa_controlled |-> FALSE,
      nppa_margin_limit |-> NULL, is_active |-> TRUE],
     [id |-> 3, user_id |-> 1, cost_price |-> 20, mrp |-> 25,
      default_margin |-> NULL, is_nppa_controlled |-> FALSE,
      nppa_margin_limit |-> NULL, is_active |-> FALSE]}

BrandIds == {1, 2, 3, 4}

\* QuoteLineItemCreate: the line item requests a caller sends.  Brand 1 is
\* asked for at a margin with a discount, the others at MRP.
ItemRequests ==
    {[brand_id |-> b, quantity |-> 1, unit_price |-> NULL,
      margin_percentage |-> NULL, discount |-> 0] : b \in BrandIds \ {1}}
    \cup
    {[brand_id |-> 1, quantity |-> 2, unit_price |-> NULL,
      margin_percentage |-> 20, discount |-> 10]}

\* QuoteCreate.line_items: min_items = 1
LineItemLists ==
    UNION {[1..n -> ItemRequests] : n \in 1..MaxItems}

QuoteIds == 1..MaxQuotes + 1

\* QuoteStatusUpdate.status: the statuses a caller asks for.
StatusInputs == QuoteStatus

NoCall == [user_id |-> NULL, brand_id |-> NULL, customer_type_id |-> NULL,
           quantity |-> NULL, rule |-> NoRule]

Init ==
    /\ brands = QuoteBrands
    /\ customer_types = {}
    /\ pricing_rules = {}
    /\ quotes = {}
    /\ quote_line_items = {}
    /\ next_quote_id = 1
    /\ next_item_id = 1
    /\ next_type_id = 1
    /\ sess = [s \in Sessions |-> NoSession]
    /\ price_call = NoCall
    /\ price_result = Pending
    /\ twin_results = {}
    /\ nppa_call = NoNppaCall
    /\ nppa_result = Pending

\* One worker serves the requests, one after the other.
Next ==
    \E s \in {1} :
        \/ \E user_id \in UserIds, line_items \in LineItemLists :
              CreateQuoteBegin(s, user_id, line_items)
        \/ CreateQuoteLookup(s)
        \/ CreateQuoteInsertQuote(s)
        \/ CreateQuoteInsertQuoteFails(s)
        \/ CreateQuoteSelectId(s)
        \/ CreateQuoteInsertItems(s)
        \/ CreateQuoteInsertItemsFails(s)
        \/ \E user_id \in UserIds, quote_id \in QuoteIds,
              status \in StatusInputs :
              UpdateQuoteStatus(s, user_id, quote_id, status)
        \/ \E user_id \in UserIds, quote_id \in QuoteIds :
              SendQuoteEmail(s, user_id, quote_id)
        \/ \E user_id \in UserIds, quote_id \in QuoteIds :
              DeleteQuoteCheck(s, user_id, quote_id)
        \/ DeleteQuoteItems(s)
        \/ DeleteQuoteRow(s)
        \/ DeleteQuoteCommit(s)
        \/ DeleteQuoteFails(s)
        \/ Return(s)

Spec == Init /\ [][Next]_vars

----------------------------------------------------------------------------
(* create_quote in one session while another session updates brands: each  *)
(* statement sees what was committed before it (READ COMMITTED).           *)

\* BrandUpdate: the fields given, NULL for a field left out.
BrandUpdates == [mrp : {NULL, 30}, cost_price : {NULL, 22}]

NextBrand ==
    \/ \E user_id \in UserIds, line_items \in LineItemLists :
          CreateQuoteBegin(1, user_id, line_items)
    \/ CreateQuoteLookup(1)
    \/ CreateQuoteInsertQuote(1)
    \/ CreateQuoteInsertQuoteFails(1)
    \/ CreateQuoteSelectId(1)
    \/ CreateQuoteInsertItems(1)
    \/ CreateQuoteInsertItemsFails(1)
    \/ \E user_id \in UserIds, brand_id \in {1, 4}, update_data \in BrandUpdates :
          UpdateBrand(2, user_id, brand_id, update_data)
    \/ \E s \in Sessions : Return(s)

SpecBrand == Init /\ [][NextBrand]_vars

----------------------------------------------------------------------------
(* create_quote over the ways a caller can price one line of brand 1.      *)

\* QuoteLineItemCreate for brand 1: unit_price absent or > 0,
\* margin_percentage absent or in [0, 100], discount in [0, 100].
LineInputs ==
    [brand_id : {1}, quantity : {2}, unit_price : {NULL, 22, 40},
     margin_percentage : {NULL, 0, 20, 100}, discount : {0, 10, 100}]

NextLine ==
    \E s \in {1} :
        \/ \E item \in LineInputs : CreateQuoteBegin(s, 1, <<item>>)
        \/ CreateQuoteLookup(s)
        \/ CreateQuoteInsertQuote(s)
        \/ CreateQuoteInsertQuoteFails(s)
        \/ CreateQuoteSelectId(s)
        \/ CreateQuoteInsertItems(s)
        \/ CreateQuoteInsertItemsFails(s)
        \/ Return(s)

SpecLine == Init /\ [][NextLine]_vars

----------------------------------------------------------------------------
(* Reading quotes that were created on earlier days.                       *)

\* Quote 1 in any status, its expiry past or ahead; quote 2 expired
\* yesterday.  Both are user 1's.
ReadQuotes ==
    {{q1, q2} :
        q1 \in [id : {1}, user_id : {1}, quote_number : {<<1, 1>>},
                status : QuoteStatus,
                quote_expires_at : {Today - 1, Today, Today + ValidityDays},
                total_amount : {25 * Scale}, total_margin : {5 * Scale}],
        q2 \in [id : {2}, user_id : {1}, quote_number : {<<1, 2>>},
                status : {"draft", "accepted"},
                quote_expires_at : {Today - 1},
                total_amount : {0}, total_margin : {0}]}

InitRead ==
    /\ brands = QuoteBrands
    /\ customer_types = {}
    /\ pricing_rules = {}
    /\ quotes \in ReadQuotes
    /\ quote_line_items = StoredLineItems
    /\ next_quote_id = 3
    /\ next_item_id = 2
    /\ next_type_id = 1
    /\ sess = [s \in Sessions |-> NoSession]
    /\ price_call = NoCall
    /\ price_result = Pending
    /\ twin_results = {}
    /\ nppa_call = NoNppaCall
    /\ nppa_result = Pending

NextRead ==
    \E s \in {1} :
        \/ \E user_id \in UserIds, quote_id \in {1, 2, 3} :
              GetQuoteCall(s, user_id, quote_id)
        \/ \E user_id \in UserIds, status \in QuoteStatus \cup {""} :
              ListQuotes(s, user_id, status)
        \/ Return(s)

SpecRead == InitRead /\ [][NextRead]_vars

----------------------------------------------------------------------------
(* Brands being soft-deleted by one session while the other prices, checks *)
(* and quotes them, over a store that holds a quote of brand 1.            *)

\* The calculate_price calls made: either user, brand 1 or 2, no customer
\* type, quantity 1.
DeleteBrandPriceCalls ==
    {c \in PriceCalls : c.customer_type_id = NULL /\ c.quantity = 1}

\* The check_nppa_compliance calls made, at a price of 22.
DeleteBrandNppaCalls ==
    {c \in NppaCalls : c.proposed_price = 22 * Scale}

InitDeleteBrand ==
    /\ brands = QuoteBrands
    /\ customer_types = {}
    /\ pricing_rules = {}
    /\ quotes = StoredQuotes
    /\ quote_line_items = StoredLineItems
    /\ next_quote_id = 2
    /\ next_item_id = 2
    /\ next_type_id = 1
    /\ sess = [s \in Sessions |-> NoSession]
    /\ price_call \in DeleteBrandPriceCalls
    /\ price_result = Pending
    /\ twin_results = {}
    /\ nppa_call = NoNppaCall
    /\ nppa_result = Pending

NextDeleteBrand ==
    \/ \E user_id \in UserIds, brand_id \in BrandIds :
          DeleteBrand(2, user_id, brand_id)
    \/ \E user_id \in UserIds, brand_id \in BrandIds :
          DeleteBrandFails(2, user_id, brand_id)
    \/ CalculatePrice
    \/ \E call \in DeleteBrandNppaCalls : CheckNppaCompliance(call)
    \/ \E user_id \in UserIds, line_items \in LineItemLists :
          CreateQuoteBegin(1, user_id, line_items)
    \/ CreateQuoteLookup(1)
    \/ CreateQuoteInsertQuote(1)
    \/ CreateQuoteInsertQuoteFails(1)
    \/ CreateQuoteSelectId(1)
    \/ CreateQuoteInsertItems(1)
    \/ CreateQuoteInsertItemsFails(1)
    \/ \E user_id \in UserIds, quote_id \in QuoteIds :
          GetQuoteCall(1, user_id, quote_id)
    \/ \E s \in Sessions : Return(s)

SpecDeleteBrand == InitDeleteBrand /\ [][NextDeleteBrand]_vars

----------------------------------------------------------------------------
(* delete_quote in one session while the other session creates a quote,    *)
(* sets statuses and sends, over a store that holds a draft quote; each    *)
(* statement sees what was committed before it (READ COMMITTED).           *)

\* The line item lists of the concurrent create_quote: lines of brand 1.
RaceLineItems ==
    {l \in LineItemLists : \A k \in DOMAIN l : l[k].brand_id = 1}

\* The statuses the concurrent update_quote_status asks for.
RaceStatusInputs == {"draft", "sent", "accepted"}

InitRace ==
    /\ brands = QuoteBrands
    /\ customer_types = {}
    /\ pricing_rules = {}
    /\ quotes = StoredQuotes
    /\ quote_line_items = StoredLineItems
    /\ next_quote_id = 2
    /\ next_item_id = 2
    /\ next_type_id = 1
    /\ sess = [s \in Sessions |-> NoSession]
    /\ price_call = NoCall
    /\ price_result = Pending
    /\ twin_results = {}
    /\ nppa_call = NoNppaCall
    /\ nppa_result = Pending

NextRace ==
    \/ \E quote_id \in QuoteIds : DeleteQuoteCheck(1, 1, quote_id)
    \/ DeleteQuoteItems(1)
    \/ DeleteQuoteRow(1)
    \/ DeleteQuoteCommit(1)
    \/ DeleteQuoteFails(1)
    \/ \E line_items \in RaceLineItems : CreateQuoteBegin(2, 1, line_items)
    \/ CreateQuoteLookup(2)
    \/ CreateQuoteInsertQuote(2)
    \/ CreateQuoteInsertQuoteFails(2)
    \/ CreateQuoteSelectId(2)
    \/ CreateQuoteInsertItems(2)
    \/ CreateQuoteInsertItemsFails(2)
    \/ \E quote_id \in QuoteIds, status \in RaceStatusInputs :
          UpdateQuoteStatus(2, 1, quote_id, status)
    \/ \E quote_id \in QuoteIds : SendQuoteEmail(2, 1, quote_id)
    \/ \E s \in Sessions : Return(s)

SpecRace == InitRace /\ [][NextRace]_vars

----------------------------------------------------------------------------
(* Customer types (services/customer_type.py), one request after the       *)
(* other.  A row carries id, user_id, name, default_margin, is_predefined. *)

\* DEFAULT_CUSTOMER_TYPES
DefaultCustomerTypes ==
    <<[name |-> "Hospital", default_margin |-> 15, is_predefined |-> TRUE],
      [name |-> "Retail Pharmacy", default_margin |-> 12,
       is_predefined |-> TRUE],
      [name |-> "Modern Trade", default_margin |-> 8, is_predefined |-> TRUE],
      [name |-> "Chemist Association", default_margin |-> 10,
       is_predefined |-> TRUE]>>

\* Customer type rows inserted in one run.
MaxTypes == 4

\* name: Optional[str] = None of update_customer_type; a given name has at
\* least two characters.
NoName == ""

\* raise ValueError("Customer type already exists")
AlreadyExistsError == [kind |-> "AlreadyExists"]

\* raise ValueError("Customer type not found")
TypeNotFoundError == [kind |-> "NotFound", what |-> "Customer type"]

\* raise ValueError("Cannot delete predefined customer type")
PredefinedError == [kind |-> "InvalidState", what |-> "Customer type"]

\* SELECT id FROM customer_types WHERE user_id = :user_id AND name = :name
SameName(user_id, name) ==
    {t \in customer_types : t.user_id = user_id /\ t.name = name}

\* The customer_types table has no uniqueness constraint on (user_id, name).
CustomerTypeNameIsUnique == FALSE

\* The storage accepts the rows: with the constraint, no owner has a name
\* twice.
Accepted(rows) ==
    CustomerTypeNameIsUnique =>
        \A t1, t2 \in rows :
            (t1.user_id = t2.user_id /\ t1.name = t2.name) => t1.id = t2.id

\* create_customer_type: the duplicate check, the INSERT, db.commit() and the
\* SELECT of the row of that name with the highest id.
CreateCustomerType(s, user_id, name, default_margin) ==
    /\ Idle(s)
    /\ next_type_id <= MaxTypes
    /\ LET call == [pc |-> "done", op |-> "create_customer_type",
                    user_id |-> user_id, name |-> name]
           row == [id |-> next_type_id, user_id |-> user_id, name |-> name,
                   default_margin |-> OrZero(default_margin),
                   is_predefined |-> FALSE]
       IN  IF SameName(user_id, name) # {}
           THEN /\ customer_types' = customer_types
                /\ next_type_id' = next_type_id
                /\ sess' = [sess EXCEPT ![s] =
                              call @@ [result |-> AlreadyExistsError]]
           ELSE /\ customer_types' = customer_types \cup {row}
                /\ next_type_id' = next_type_id + 1
                /\ sess' = [sess EXCEPT ![s] =
                              call @@ [result |-> [kind |-> "ok", row |-> row]]]
    /\ UNCHANGED <<brands, pricing_rules, quotes, quote_line_items,
                   next_quote_id, next_item_id>>
    /\ UNCHANGED priceVars

\* update_customer_type: UPDATE customer_types SET the fields given WHERE id
\* AND user_id; db.commit(); get_customer_type, whose ValueError becomes
\* "Failed to update customer type", as does a rejected UPDATE.
UpdateCustomerType(s, user_id, type_id, name, default_margin) ==
    /\ Idle(s)
    /\ LET updated ==
               {IF t.id = type_id /\ t.user_id = user_id
                THEN [t EXCEPT
                        !.name = IF name # NoName THEN name ELSE @,
                        !.default_margin = IF default_margin # NULL
                                           THEN default_margin ELSE @]
                ELSE t : t \in customer_types}
           call == [pc |-> "done", op |-> "update_customer_type",
                    user_id |-> user_id, type_id |-> type_id, name |-> name]
       IN  IF Accepted(updated)
           THEN LET found == {t \in updated :
                                 t.id = type_id /\ t.user_id = user_id}
                IN  /\ customer_types' = updated
                    /\ sess' = [sess EXCEPT ![s] =
                          call @@ [result |->
                                     IF found = {} THEN InternalError
                                     ELSE [kind |-> "ok",
                                           row |-> CHOOSE t \in found : TRUE]]]
           ELSE /\ customer_types' = customer_types
                /\ sess' = [sess EXCEPT ![s] =
                              call @@ [result |-> InternalError]]
    /\ UNCHANGED <<brands, pricing_rules, quotes, quote_line_items,
                   next_quote_id, next_item_id, next_type_id>>
    /\ UNCHANGED priceVars

\* delete_customer_type: the row is looked up, a predefined one is refused,
\* DELETE FROM customer_types WHERE id AND user_id; db.commit()
DeleteCustomerType(s, user_id, type_id) ==
    /\ Idle(s)
    /\ LET found == {t \in customer_types :
                        t.id = type_id /\ t.user_id = user_id}
           call == [pc |-> "done", op |-> "delete_customer_type",
                    user_id |-> user_id, type_id |-> type_id]
       IN  IF found = {}
           THEN /\ customer_types' = customer_types
                /\ sess' = [sess EXCEPT ![s] =
                              call @@ [result |-> TypeNotFoundError]]
           ELSE IF (CHOOSE t \in found : TRUE).is_predefined
                THEN /\ customer_types' = customer_types
                     /\ sess' = [sess EXCEPT ![s] =
                                   call @@ [result |-> PredefinedError]]
                ELSE /\ customer_types' = customer_types \ found
                     /\ sess' = [sess EXCEPT ![s] =
                                   call @@ [result |-> [kind |-> "ok"]]]
    /\ UNCHANGED <<brands, pricing_rules, quotes, quote_line_items,
                   next_quote_id, next_item_id, next_type_id>>
    /\ UNCHANGED priceVars

\* init_default_types: each default whose name the user does not hold yet is
\* inserted, in the order of the list; db.commit(); return True
InitDefaultTypes(s, user_id) ==
    /\ Idle(s)
    /\ LET missing == SelectSeq(DefaultCustomerTypes,
                                LAMBDA c : SameName(user_id, c.name) = {})
       IN  /\ next_type_id + Len(missing) - 1 <= MaxTypes
           /\ customer_types' = customer_types \cup
                {[id |-> next_type_id + k - 1, user_id |-> user_id,
                  name |-> missing[k].name,
                  default_margin |-> missing[k].default_margin,
                  is_predefined |-> missing[k].is_predefined] :
                 k \in 1..Len(missing)}
           /\ next_type_id' = next_type_id + Len(missing)
    /\ sess' = [sess EXCEPT ![s] =
                  [pc |-> "done", op |-> "init_default_types",
                   user_id |-> user_id, result |-> [kind |-> "ok"]]]
    /\ UNCHANGED <<brands, pricing_rules, quotes, quote_line_items,
                   next_quote_id, next_item_id>>
    /\ UNCHANGED priceVars

\* CustomerTypeCreate.name, CustomerTypeUpdate.name: a default's name and a
\* name of the user's own.
TypeNames == {"Hospital", "Clinic"}

\* default_margin of the requests: absent or in [0, 100].
TypeMargins == {NULL, 10}

TypeIds == 1..MaxTypes

NextCustomerType ==
    \E s \in {1} :
        \/ \E user_id \in UserIds, name \in TypeNames,
              default_margin \in TypeMargins :
              CreateCustomerType(s, user_id, name, default_margin)
        \/ \E user_id \in UserIds, type_id \in TypeIds,
              name \in TypeNames \cup {NoName},
              default_margin \in TypeMargins :
              UpdateCustomerType(s, user_id, type_id, name, default_margin)
        \/ \E user_id \in UserIds, type_id \in TypeIds :
              DeleteCustomerType(s, user_id, type_id)
        \/ \E user_id \in UserIds : InitDefaultTypes(s, user_id)
        \/ Return(s)

SpecCustomerType == Init /\ [][NextCustomerType]_vars

----------------------------------------------------------------------------
(* Properties of calculate_price (SpecPricing).                            *)

\* The brand row a successful call priced.
CalledBrand ==
    CHOOSE b \in brands : b.id = price_call.brand_id
                          /\ b.user_id = price_call.user_id

CalledMatching ==
    MatchingRules(price_call.user_id, price_call.brand_id,
                  price_call.customer_type_id)

PriceOk == price_result.kind = "ok"

\* C1: whatever the brand, customer type, quantity and rule, the unit price
\* that calculate_price returns is at most the brand's MRP.
C1_UnitPriceAtMostMrp ==
    PriceOk => price_result.unit_price <= CalledBrand.mrp * Scale

\* A rule's explicit sell price above the MRP was overridden by the cap.
C1_Witness ==
    /\ PriceOk
    /\ price_call.rule # NoRule
    /\ Truthy(price_call.rule.sell_price)
    /\ price_call.rule.sell_price > CalledBrand.mrp
    /\ price_result.volume_discount = 0
    /\ price_result.unit_price = CalledBrand.mrp * Scale

\* C7: with no rule matched, the margin is the customer type's default margin
\* when a customer type was given and found, and the brand's default margin
\* (else 0) only when none was given or found.
C7_TypeMarginBeforeBrandMargin ==
    (PriceOk /\ price_call.rule = NoRule) =>
        LET types == TypeRows(price_call.user_id, price_call.customer_type_id)
            found == Truthy(price_call.customer_type_id) /\ types # {}
            type_margin == (CHOOSE t \in types : TRUE).default_margin
            priced(m) == Min(CalledBrand.cost_price * (100 + m) * 100,
                             CalledBrand.mrp * Scale)
        IN  IF found
            THEN type_margin # NULL
                    => price_result.unit_price = priced(type_margin)
            ELSE price_result.unit_price
                    = priced(OrZero(CalledBrand.default_margin))

\* C8 as stated: when a matching rule with an explicit sell price and another
\* with only a margin percent both exist, the pre-discount unit price is the
\* explicit sell price.
C8_SellPriceRuleWins ==
    (/\ PriceOk
     /\ \E r \in CalledMatching : Truthy(r.sell_price)
     /\ \E r \in CalledMatching :
            ~Truthy(r.sell_price) /\ Truthy(r.margin_percentage)) =>
        \E r \in CalledMatching :
            /\ Truthy(r.sell_price)
            /\ price_result.unit_price =
                 Min(ApplyDiscount(r.sell_price * Scale,
                                   price_result.volume_discount),
                     CalledBrand.mrp * Scale)

\* C8 amended: the price comes from one of the matching rules, whichever the
\* store returns; if that rule carries a sell price, the sell price is the
\* pre-discount unit price and its margin percent is ignored.
C8_SelectedRuleSellPriceFirst ==
    (PriceOk /\ CalledMatching # {}) =>
        \E r \in CalledMatching :
            /\ r = price_call.rule
            /\ price_result.unit_price =
                 Min(ApplyDiscount(
                        IF Truthy(r.sell_price)
                        THEN r.sell_price * Scale
                        ELSE CalledBrand.cost_price
                                * (100 + OrZero(r.margin_percentage)) * 100,
                        price_result.volume_discount),
                     CalledBrand.mrp * Scale)

\* Two rules match and the one used carries both a sell price and a margin.
C8_Witness ==
    /\ PriceOk
    /\ Cardinality(CalledMatching) = 2
    /\ price_call.rule # NoRule
    /\ Truthy(price_call.rule.sell_price)
    /\ Truthy(price_call.rule.margin_percentage)
    /\ price_result.unit_price = price_call.rule.sell_price * Scale

C10_NppaAdvisory ==
    PriceOk =>
        \A t \in twin_results :
            /\ t.unit_price = price_result.unit_price
            /\ t.margin_percentage = price_result.margin_percentage
            /\ t.margin_per_unit = price_result.margin_per_unit
            /\ t.total_margin = price_result.total_margin
            /\ t.total_amount = price_result.total_amount
            /\ t.volume_discount = price_result.volume_discount

\* The same call is compliant for one brand and not for its twin.
C10_Witness ==
    /\ PriceOk
    /\ \E t, u \in twin_results :
          /\ t.nppa_compliant /\ ~u.nppa_compliant
          /\ t.unit_price = u.unit_price

----------------------------------------------------------------------------
(* Properties of check_nppa_compliance (SpecPricing, SpecNppa).            *)

NppaOk == nppa_result.kind = "ok"

\* C11: check_nppa_compliance called with the unit price calculate_price
\* returned reports the margin percent and the verdict calculate_price
\* reported.
C11_CheckerAgreesWithResolver ==
    (PriceOk /\ NppaOk /\ nppa_call.proposed_price = price_result.unit_price) =>
        /\ nppa_result.margin_percentage = price_result.margin_percentage
        /\ nppa_result.is_compliant = price_result.nppa_compliant

C11_Witness ==
    /\ PriceOk
    /\ NppaOk
    /\ nppa_call.proposed_price = price_result.unit_price
    /\ ~price_result.nppa_compliant
    /\ ~nppa_result.is_compliant
    /\ price_result.unit_price < price_result.mrp

\* C12: the verdict of check_nppa_compliance is compliant for a brand that is
\* not controlled and for a controlled brand without a limit, and for a
\* controlled brand with a limit L, 0 included, it is compliant exactly when
\* (proposed_price - cost_price) / cost_price * 100 <= L.
C12_VerdictFollowsLimit ==
    NppaOk =>
        LET brand == CHOOSE b \in brands : b.id = nppa_call.brand_id
            over == (nppa_call.proposed_price - brand.cost_price * Scale) * 100
                       > brand.nppa_margin_limit * brand.cost_price * Scale
        IN  IF ~brand.is_nppa_controlled \/ brand.nppa_margin_limit = NULL
            THEN nppa_result.is_compliant
            ELSE nppa_result.is_compliant = ~over

\* C13: calculate_price and check_nppa_compliance, returning or raising,
\* leave every table as it was.
C13_PricingReadsOnly ==
    [][/\ brands' = brands
       /\ customer_types' = customer_types
       /\ pricing_rules' = pricing_rules
       /\ quotes' = quotes
       /\ quote_line_items' = quote_line_items]_vars

C13_Witness ==
    /\ price_result = BrandNotFound
    /\ NppaOk
    /\ ~nppa_result.is_compliant
    /\ pricing_rules # {}
    /\ quotes # {}
    /\ quote_line_items # {}


----------------------------------------------------------------------------
(* Properties of the quote operations (Spec).                              *)

Running(s, op) == sess[s].pc # "idle" /\ sess[s].op = op

Returned(s, op) == sess[s].pc = "done" /\ sess[s].op = op

\* The brand ids of a request list that the owner cannot quote, in order.
Unusable(user_id, line_items) ==
    SelectSeq([k \in 1..Len(line_items) |-> line_items[k].brand_id],
              LAMBDA id : ~\E b \in brands :
                              b.id = id /\ b.user_id = user_id /\ b.is_active)

RECURSIVE SumOver(_, _)
SumOver(rows, field) ==
    IF rows = <<>> THEN 0
    ELSE rows[1][field] + SumOver(Tail(rows), field)

\* C2: a create_quote that succeeds on N line item requests returns a quote
\* with exactly N line items, those priced by this call, whose line totals
\* and margins add up to the quote's totals, and total_items = N, whatever
\* quotes were created before.
C2_CreateReturnsItsItems ==
    \A s \in Sessions :
        (Returned(s, "create_quote") /\ sess[s].result.kind = "ok") =>
            LET got == sess[s].result
                mine == sess[s].processed_items
                N == Len(sess[s].line_items)
            IN  /\ got.total_items = N
                /\ Len(got.line_items) = N
                /\ \A k \in 1..Len(got.line_items) :
                      /\ k <= Len(mine)
                      /\ \A f \in DOMAIN mine[k] :
                            got.line_items[k][f] = mine[k][f]
                /\ SumOver(got.line_items, "line_total") = got.total_amount
                /\ SumOver(got.line_items, "margin_earned") = got.total_margin

\* C3: a create_quote whose list names a brand that does not exist, is
\* inactive or is another owner's never writes to the store, at any of its
\* steps, and returns NotFound naming the first such brand.
C3_BadBrandAbortsCreate ==
    [][\A s \in Sessions :
          (/\ Running(s, "create_quote")
           /\ Unusable(sess[s].user_id, sess[s].line_items) # <<>>) =>
              /\ quotes' = quotes
              /\ quote_line_items' = quote_line_items
              /\ sess'[s].pc = "done" =>
                    sess'[s].result =
                        BrandNotFoundError(
                            Unusable(sess[s].user_id, sess[s].line_items)[1])
      ]_vars

C3_Witness ==
    \E s \in Sessions :
        /\ Returned(s, "create_quote")
        /\ sess[s].result = BrandNotFoundError(3)
        /\ Len(sess[s].processed_items) = 1
        /\ quotes # {}

\* C4: a create_quote that returns a failure has left behind neither the
\* quote row it inserted nor a line item of that quote.
C4_FailedCreateLeavesNothing ==
    \A s \in Sessions :
        (Returned(s, "create_quote") /\ sess[s].result.kind # "ok") =>
            /\ \A q \in quotes : q.id # sess[s].new_id
            /\ \A it \in quote_line_items : it.quote_id # sess[s].new_id

\* C5: delete_quote called on an owned quote whose status is not draft
\* returns InvalidState at once and changes neither table.
C5_NonDraftDeleteRejected ==
    [][\A s \in Sessions :
          (/\ Idle(s)
           /\ sess'[s].pc # "idle"
           /\ sess'[s].op = "delete_quote") =>
              \A q \in quotes :
                  (/\ q.id = sess'[s].quote_id
                   /\ q.user_id = sess'[s].user_id
                   /\ q.status # "draft") =>
                      /\ sess'[s].pc = "done"
                      /\ sess'[s].result = OnlyDraftError
                      /\ quotes' = quotes
                      /\ quote_line_items' = quote_line_items
      ]_vars

C5_Witness ==
    \E s \in Sessions :
        /\ Returned(s, "delete_quote")
        /\ sess[s].result = OnlyDraftError
        /\ \E q \in quotes :
              /\ q.id = sess[s].quote_id
              /\ q.user_id = sess[s].user_id
              /\ q.status = "viewed"
              /\ \E it \in quote_line_items : it.quote_id = q.id

\* C6: every step of a delete_quote that passed the draft check either
\* leaves both tables as they are, or is the commit, which takes out the
\* quote row and all line items of that quote together and nothing else; the
\* call returns success at the commit only.
C6_DeleteIsOneStep ==
    [][\A s \in Sessions :
          (/\ Running(s, "delete_quote")
           /\ sess[s].pc # "done") =>
              LET quote_id == sess[s].quote_id
                  succeeds == /\ sess'[s].pc = "done"
                              /\ sess'[s].result.kind = "ok"
              IN  \/ /\ quotes' = quotes
                     /\ quote_line_items' = quote_line_items
                     /\ ~succeeds
                  \/ /\ quotes' = {q \in quotes : q.id # quote_id}
                     /\ quote_line_items' =
                          {it \in quote_line_items : it.quote_id # quote_id}
                     /\ quotes' # quotes
                     /\ succeeds
      ]_vars

C6_Witness ==
    \E s \in Sessions :
        /\ Returned(s, "delete_quote")
        /\ sess[s].result.kind = "ok"
        /\ sess[s].del_items # {}
        /\ \A q \in quotes : q.id # sess[s].quote_id
        /\ \A it \in quote_line_items : it.quote_id # sess[s].quote_id
        /\ quote_line_items # {}

\* The quotes of owners other than user_id, and the line items under them.
QuotesOfOthers(qs, user_id) == {q \in qs : q.user_id # user_id}

ItemsOfOthers(qs, items, user_id) ==
    {it \in items : \E q \in QuotesOfOthers(qs, user_id) : q.id = it.quote_id}

\* The caller owns a quote with this id.
Owns(user_id, quote_id) ==
    \E q \in quotes : q.id = quote_id /\ q.user_id = user_id

\* C14: no step of an operation called by owner A changes a quote or line
\* item of another owner, a result carries A's data only, and update, delete
\* and send addressed at a quote id A does not own, like create_quote naming
\* a brand A cannot use, return NotFound.
C14_TenantIsolation ==
    [][\A s \in Sessions :
          sess'[s].pc # "idle" =>
              LET me == sess'[s]
              IN  /\ QuotesOfOthers(quotes', me.user_id)
                        = QuotesOfOthers(quotes, me.user_id)
                  /\ ItemsOfOthers(quotes', quote_line_items', me.user_id)
                        = ItemsOfOthers(quotes, quote_line_items, me.user_id)
                  /\ (me.pc = "done" /\ me.result.kind = "ok"
                         /\ "user_id" \in DOMAIN me.result) =>
                        me.result.user_id = me.user_id
                  /\ (/\ me.pc = "done"
                      /\ me.op \in {"update_quote_status", "delete_quote",
                                    "send_quote_email"}
                      /\ Idle(s)
                      /\ ~Owns(me.user_id, me.quote_id)) =>
                        me.result.kind = "NotFound"
                  /\ (/\ me.pc = "done"
                      /\ me.op = "create_quote"
                      /\ Unusable(me.user_id, me.line_items) # <<>>) =>
                        me.result.kind = "NotFound"
      ]_vars

\* C15: update_quote_status addressed at a quote the caller does not own
\* returns NotFound.
C15_UpdateOfMissingQuoteIsNotFound ==
    \A s \in Sessions :
        (/\ Returned(s, "update_quote_status")
         /\ ~Owns(sess[s].user_id, sess[s].quote_id)) =>
            sess[s].result.kind = "NotFound"

\* C16: update_quote_status on a quote the caller owns succeeds whatever the
\* status before and the status asked for, and the stored status is the one
\* asked for, nothing else of the row changing.
C16_AnyStatusToAnyStatus ==
    [][\A s \in Sessions :
          (/\ Idle(s)
           /\ sess'[s].pc # "idle"
           /\ sess'[s].op = "update_quote_status"
           /\ Owns(sess'[s].user_id, sess'[s].quote_id)) =>
              LET me == sess'[s]
              IN  /\ me.result.kind = "ok"
                  /\ me.result.status = me.status
                  /\ quotes' = {IF q.id = me.quote_id /\ q.user_id = me.user_id
                                THEN [q EXCEPT !.status = me.status] ELSE q :
                                q \in quotes}
      ]_vars

C16_Witness ==
    \E s \in Sessions :
        /\ Returned(s, "update_quote_status")
        /\ sess[s].status_before = "accepted"
        /\ sess[s].status = "draft"
        /\ sess[s].result.kind = "ok"
        /\ sess[s].result.status = "draft"
        /\ \E q \in quotes : q.id = sess[s].quote_id /\ q.status = "draft"

\* C17: get_quote and list_quotes report expired for every quote whose expiry
\* has passed while its stored status is draft, sent or viewed.
C17_ExpiredOnRead ==
    \A s \in Sessions :
        /\ (Returned(s, "get_quote") /\ sess[s].result.kind = "ok") =>
              \A q \in quotes :
                  (/\ q.id = sess[s].quote_id
                   /\ q.status \in {"draft", "sent", "viewed"}
                   /\ q.quote_expires_at < Today) =>
                      sess[s].result.status = "expired"
        /\ Returned(s, "list_quotes") =>
              \A k \in DOMAIN sess[s].result.quotes :
                  \A q \in quotes :
                      (/\ q.id = sess[s].result.quotes[k].id
                       /\ q.status \in {"draft", "sent", "viewed"}
                       /\ q.quote_expires_at < Today) =>
                          sess[s].result.quotes[k].status = "expired"

\* The line items stored under a quote id.
ItemsUnder(items, quote_id) == {it \in items : it.quote_id = quote_id}

\* The quote row is the one a create_quote still running has inserted.
BeingCreated(q) ==
    \E s \in Sessions : Running(s, "create_quote") /\ sess[s].new_id = q.id

\* C18: once create_quote has returned, no step adds, removes or alters a
\* line item of the quote or changes its totals, except the commit of a
\* delete_quote of that quote, which removes them.
C18_LineItemsImmutable ==
    [][\A q \in quotes :
          ~BeingCreated(q) =>
              \/ /\ \A r \in quotes' : r.id # q.id
                 /\ \E s \in Sessions :
                       /\ Running(s, "delete_quote")
                       /\ sess[s].quote_id = q.id
              \/ /\ \E r \in quotes' :
                       /\ r.id = q.id
                       /\ r.total_amount = q.total_amount
                       /\ r.total_margin = q.total_margin
                 /\ ItemsUnder(quote_line_items', q.id)
                       = ItemsUnder(quote_line_items, q.id)
      ]_vars

\* C19: within one create_quote, line item requests that are equal (same
\* brand, quantity, price, margin and discount) are priced alike, as they
\* are when every lookup of the brand returns the same cost price and MRP.
C19_OneBrandSnapshotPerQuote ==
    \A s \in Sessions :
        Running(s, "create_quote") =>
            \A i, j \in 1..Len(sess[s].processed_items) :
                sess[s].line_items[i] = sess[s].line_items[j] =>
                    sess[s].processed_items[i] = sess[s].processed_items[j]

\* C20: every line create_quote has processed carries the stated unit price:
\* the caller's unit price, else the caller's margin (0 included) over cost
\* capped at MRP, else MRP, then the discount; and the margin percent
\* recomputed from that unit price.
C20_LinePricing ==
    \A s \in Sessions :
        Running(s, "create_quote") =>
            \A k \in 1..Len(sess[s].processed_items) :
                LET item == sess[s].line_items[k]
                    brand == CHOOSE b \in brands : b.id = item.brand_id
                    line == sess[s].processed_items[k]
                    base == IF item.unit_price # NULL
                            THEN item.unit_price * Scale
                            ELSE IF item.margin_percentage # NULL
                                 THEN Min(brand.cost_price
                                            * (100 + item.margin_percentage)
                                            * 100,
                                          brand.mrp * Scale)
                                 ELSE brand.mrp * Scale
                IN  /\ line.unit_price = (base * (100 - item.discount)) \div 100
                    /\ line.margin_percentage =
                          MarginPercent(line.unit_price, brand.cost_price)

\* C21: no stored line item has a unit price above the MRP of its brand,
\* whatever unit price, margin and discount the caller sent (the brand rows
\* do not change in SpecLine, so the MRP is the one of the creation).
C21_MrpCeilingOnLineItems ==
    \A it \in quote_line_items :
        \A b \in brands :
            b.id = it.brand_id => it.unit_price <= b.mrp * Scale

----------------------------------------------------------------------------
(* Further properties of calculate_price (SpecPricing).                    *)

\* The stored rules of the called owner and brand that carry no customer
\* type, are active and whose window holds today.
GeneralRules ==
    {r \in pricing_rules :
        /\ r.user_id = price_call.user_id
        /\ r.brand_id = price_call.brand_id
        /\ r.customer_type_id = NULL
        /\ r.is_active
        /\ (r.valid_from = NULL \/ r.valid_from <= Today)
        /\ (r.valid_until = NULL \/ r.valid_until >= Today)}

\* C22: when the store holds an active, in-window rule with a null customer
\* type for the owner and brand, and no rule of the customer type given, a
\* successful calculate_price returns the price of that rule, whatever
\* customer type id was given.
C22_NullTypeRuleApplies ==
    (/\ PriceOk
     /\ price_call.customer_type_id # NULL
     /\ GeneralRules # {}
     /\ CalledMatching = {}) =>
        \E r \in GeneralRules :
            price_result.unit_price =
                PriceOf(price_call.user_id, CalledBrand,
                        price_call.customer_type_id, price_call.quantity,
                        r).unit_price

\* C28: the rule a successful calculate_price prices by is a stored rule of
\* the called owner, brand and customer type that is active and whose window
\* holds today, the end dates included and a null bound open; such a rule is
\* used when there is one, and when there is none the price is the one of the
\* default margin fallback.
C28_RuleUsedOnlyInWindow ==
    PriceOk =>
        LET r == price_call.rule
            usable == {x \in pricing_rules :
                          /\ x.is_active
                          /\ x.user_id = price_call.user_id
                          /\ x.brand_id = price_call.brand_id
                          /\ price_call.customer_type_id # NULL
                          /\ x.customer_type_id = price_call.customer_type_id
                          /\ x.valid_from # NULL => x.valid_from <= Today
                          /\ x.valid_until # NULL => Today <= x.valid_until}
            fallback == Min(CalledBrand.cost_price
                               * (100 + FallbackMargin(price_call.user_id,
                                                       CalledBrand,
                                                       price_call.customer_type_id))
                               * 100,
                            CalledBrand.mrp * Scale)
        IN  /\ r # NoRule => r \in usable
            /\ usable # {} => r \in usable
            /\ usable = {} =>
                  /\ price_result.unit_price = fallback
                  /\ price_result.volume_discount = 0

\* A rule whose window starts and ends today was used, at a quantity of its
\* tier, and gave a price other than the fallback's.
C28_Witness ==
    /\ PriceOk
    /\ price_call.rule # NoRule
    /\ price_call.rule.valid_from = Today
    /\ price_call.rule.valid_until = Today
    /\ price_call.quantity = 2
    /\ CalledBrand.default_margin = 10
    /\ price_result.volume_discount = 5
    /\ price_result.unit_price = (20 * 120 * 100 * 95) \div 100

----------------------------------------------------------------------------
(* Further properties of the quote operations.                             *)

\* C23: no two stored quotes carry the same quote number, and the id that
\* create_quote reads back by the number is the id of the row it inserted.
C23_QuoteNumbersUnique ==
    /\ \A q1, q2 \in quotes :
          q1.quote_number = q2.quote_number => q1.id = q2.id
    /\ \A s \in Sessions :
          (Running(s, "create_quote") /\ sess[s].quote_id # NULL) =>
              sess[s].quote_id = sess[s].new_id

\* The owner's brand row of this id is soft-deleted.
Deleted(user_id, brand_id) ==
    \E b \in brands :
        b.id = brand_id /\ b.user_id = user_id /\ ~b.is_active

\* C24: once a brand row is soft-deleted, a calculate_price or a
\* check_nppa_compliance that names it for its owner returns NotFound, and so
\* does the create_quote lookup of a line of that brand; delete_brand leaves
\* quotes and line items as they are, and get_quote of an owned quote still
\* returns it with its line items.
C24_DeletedBrandIsNotFound ==
    [][/\ (/\ price_result = Pending
           /\ price_result' # Pending
           /\ Deleted(price_call.user_id, price_call.brand_id)) =>
              price_result' = BrandNotFound
       /\ (/\ nppa_result = Pending
           /\ nppa_result' # Pending
           /\ Deleted(nppa_call'.user_id, nppa_call'.brand_id)) =>
              nppa_result' = BrandNotFound
       /\ \A s \in Sessions :
             /\ (/\ sess[s].pc = "lookup"
                 /\ sess'[s] # sess[s]
                 /\ Deleted(sess[s].user_id,
                            sess[s].line_items[Len(sess[s].processed_items) + 1]
                                .brand_id)) =>
                    /\ sess'[s].pc = "done"
                    /\ sess'[s].result.kind = "NotFound"
                    /\ sess'[s].result.brand_id =
                          sess[s].line_items[Len(sess[s].processed_items) + 1]
                              .brand_id
             /\ (/\ Idle(s)
                 /\ sess'[s].pc = "done"
                 /\ sess'[s].op = "delete_brand") =>
                    /\ quotes' = quotes
                    /\ quote_line_items' = quote_line_items
             /\ (/\ Idle(s)
                 /\ sess'[s].pc = "done"
                 /\ sess'[s].op = "get_quote"
                 /\ Owns(sess'[s].user_id, sess'[s].quote_id)) =>
                    /\ sess'[s].result.kind = "ok"
                    /\ \A it \in ItemsUnder(quote_line_items,
                                            sess'[s].quote_id) :
                          \E k \in DOMAIN sess'[s].result.line_items :
                              sess'[s].result.line_items[k] = it
      ]_vars

\* Brand 1 was soft-deleted; pricing, checking and quoting it then failed
\* with NotFound, and the quote made of it before is still stored.
C24_Witness ==
    /\ Deleted(1, 1)
    /\ price_call.user_id = 1 /\ price_call.brand_id = 1
    /\ price_result = BrandNotFound
    /\ nppa_call.user_id = 1 /\ nppa_call.brand_id = 1
    /\ nppa_result = BrandNotFound
    /\ Returned(1, "create_quote")
    /\ sess[1].result = BrandNotFoundError(1)
    /\ quotes = StoredQuotes
    /\ quote_line_items = StoredLineItems

\* C25: in every state, no owner holds two customer types of the same name.
C25_TypeNamesUniquePerOwner ==
    \A t1, t2 \in customer_types :
        (t1.user_id = t2.user_id /\ t1.name = t2.name) => t1.id = t2.id

\* C26: whatever update_quote_status and send_quote_email do while a
\* delete_quote runs, a quote row leaves the table only while its stored
\* status is draft.
C26_RemovedOnlyWhileDraft ==
    [][\A q \in quotes :
          (\A r \in quotes' : r.id # q.id) => q.status = "draft"]_vars

\* C27: whatever create_quote and delete_quote do side by side, every stored
\* line item is under a stored quote.
C27_NoOrphanLineItems ==
    \A it \in quote_line_items : \E q \in quotes : q.id = it.quote_id

\* C29: a step in which send_quote_email returns leaves the line items and
\* every quote's fields other than status as they were; a quote's status
\* changes in it only from draft to sent, and only on the quote sent by a
\* call that succeeded, whose draft status always does so change.
C29_SendOnlyMovesDraftToSent ==
    [][\A s \in Sessions :
          (~Returned(s, "send_quote_email")
           /\ sess'[s].pc = "done" /\ sess'[s].op = "send_quote_email") =>
             /\ quote_line_items' = quote_line_items
             /\ {q.id : q \in quotes'} = {q.id : q \in quotes}
             /\ \A q \in quotes : \A r \in quotes' :
                   r.id = q.id =>
                      /\ [r EXCEPT !.status = q.status] = q
                      /\ r.status =
                            IF /\ sess'[s].result.kind = "ok"
                               /\ q.id = sess'[s].quote_id
                               /\ q.status = "draft"
                            THEN "sent" ELSE q.status]_vars

\* send_quote_email has succeeded on an accepted quote that has line items.
C29_Witness ==
    \E s \in Sessions :
        /\ Returned(s, "send_quote_email")
        /\ sess[s].result.kind = "ok"
        /\ \E q \in quotes :
              /\ q.id = sess[s].quote_id
              /\ q.status = "accepted"
              /\ \E it \in quote_line_items : it.quote_id = q.id

\* C30: a quote row that a step adds to the store has status draft, and a
\* step changes the stored status of a quote only when update_quote_status or
\* send_quote_email returns in it from a call on that quote.
C30_StatusChangesOnlyByCall ==
    [][/\ \A r \in quotes' :
             (\A q \in quotes : q.id # r.id) => r.status = "draft"
       /\ \A q \in quotes : \A r \in quotes' :
             (r.id = q.id /\ r.status # q.status) =>
                \E s \in Sessions :
                   /\ sess[s].pc # "done"
                   /\ sess'[s].pc = "done"
                   /\ sess'[s].op \in {"update_quote_status",
                                       "send_quote_email"}
                   /\ sess'[s].quote_id = q.id]_vars

\* update_quote_status has moved one of a user's quotes to viewed while
\* another quote of the same user is still the draft it was created as.
C30_Witness ==
    \E s \in Sessions :
        /\ Returned(s, "update_quote_status")
        /\ sess[s].result.kind = "ok"
        /\ \E q \in quotes, r \in quotes :
              /\ q.id = sess[s].quote_id
              /\ q.status = "viewed"
              /\ r.id # q.id
              /\ r.user_id = q.user_id
              /\ r.status = "draft"

====
